---- MODULE Spec2Model ----
(***************************************************************************)
(* A model of the CRM customer screens of mui-vite-demo.                   *)
(*                                                                         *)
(* The repository holds three alternative customer pages; one of them is   *)
(* mounted (variable app):                                                 *)
(*   "CustomersPage"      src/src/crm/pages/Customers.tsx (useDebounce)    *)
(*   "CustomersDataTable" src/unnamed/part_003 rendering part_000 and      *)
(*                        CustomerModal                                    *)
(*   "CrmCustomersTable"  src/unnamed/part_002 rendering part_001 and      *)
(*                        CrmEditUserModal                                 *)
(*                                                                         *)
(* One action is one React event handler, timer callback or promise        *)
(* continuation, together with the render and the effects that it causes.  *)
(* Requests that were sent and not yet answered sit in inflight; the       *)
(* Directory Service answers them in any order.                            *)
(***************************************************************************)
EXTENDS Integers, Sequences, FiniteSets, Bags, TLC

\* ------------------------------------------------------------------ bounds

\* Largest 0-based page index the pagination control offers.
MaxPage == 1

\* Largest number of requests that are outstanding at the same time.
MaxInflight == 2
\* Saves that remount the table the model follows.
MaxRefresh == 1

\* ------------------------------------------------------------------ values

Apps == {"CustomersPage", "CustomersDataTable", "CrmCustomersTable"}

\* JavaScript null (error: string | null).
Null == "null"

\* Search texts the user types; "" is the empty search box.
SearchTexts == {"", "a"}

\* Page sizes the user picks: a part of pageSizeOptions / rowsPerPageOptions
\* that holds the initial page size of every component.
PageSizes == {10, 25}

\* uuids of the rows a page shows.
Uuids == {"u1", "u2"}

\* How the Directory Service answers a request: 2xx, a non-2xx status, or no
\* answer at all (fetch rejects).
Outcomes == {"ok", "http500", "network"}

InitialPageSize(a) == IF a = "CrmCustomersTable" THEN 10 ELSE 25

VARIABLES
    app,                  \* the page component that is mounted
    users,                \* users / customers: the rows shown
    total,                \* total / totalUsers
    loading,              \* loading flag of the list component
    error,                \* error of the list component
    searchTerm,           \* searchTerm / searchQuery
    page,                 \* page / paginationModel.page (0-based)
    pageSize,             \* pageSize / rowsPerPage / paginationModel.pageSize
    debouncedSearchTerm,  \* useDebounce's debouncedValue (CustomersPage)
    timer,                \* useDebounce's pending setTimeout (CustomersPage)
    refreshKey,           \* refreshKey / refreshTrigger of the wrapping page
    modalOpen,            \* modalOpen of the wrapping page
    selectedCustomer,     \* selectedCustomer / selectedUser: <<>> for null, or <<row>>
    heap,                 \* the row objects the list holds, and whether the open
                          \* CrmEditUserModal draft shares their nested objects
    formData,             \* CustomerModal: the draft
    errors,               \* CustomerModal: field errors ("" where there is none)
    editedUser,           \* CrmEditUserModal: <<>> for null, or <<the draft>>
    modalLoading,         \* loading of the modal
    modalError,           \* error of the modal
    customerStats,        \* customerStats of the page around CrmCustomersTable
    statsInflight,        \* statistics requests sent and not yet answered
    inflight,             \* requests sent and not yet answered (a bag)
    latestReq,            \* observation: the list request issued last, and its answer
    burst,                \* observation: the run of keystrokes being debounced
    last                  \* observation: the step taken last and what it sent

listVars == <<users, total, loading, error, searchTerm, page, pageSize,
              debouncedSearchTerm, timer>>

pageVars == <<refreshKey, modalOpen, selectedCustomer, heap>>

modalVars == <<formData, errors, editedUser, modalLoading, modalError>>

statsVars == <<customerStats, statsInflight>>

vars == <<app, users, total, loading, error, searchTerm, page, pageSize,
          debouncedSearchTerm, timer, refreshKey, modalOpen, selectedCustomer, heap,
          formData, errors, editedUser, modalLoading, modalError,
          customerStats, statsInflight, inflight, latestReq, burst, last>>

\* ------------------------------------------------------------------ the Directory Service

\* A list request carrying the 0-based page index as it is
ListRequestZeroBased(search, currentPage, perPage, sortBy) ==
    [kind |-> "GET", id |-> "", search |-> search, page |-> currentPage,
     perPage |-> perPage, sortBy |-> sortBy]

\* GET /users?page=&perPage=&search=&sortBy= as it goes on the wire.
ListRequest(search, currentPage, perPage, sortBy) ==
    [kind |-> "GET", id |-> "", search |-> search, page |-> currentPage + 1,
     perPage |-> perPage, sortBy |-> sortBy]

\* DELETE /users/{id}
DeleteRequest(id) ==
    [kind |-> "DELETE", id |-> id, search |-> "", page |-> 0, perPage |-> 0,
     sortBy |-> ""]

\* The rows of a 2xx list response: the page that answers the request,
\* named by the query that selects it.
ResponseData(req) ==
    <<[search |-> req.search, page |-> req.page - 1, perPage |-> req.perPage]>>

\* The total of a 2xx list response: the number of records matching the search.
ResponseTotal(req) ==
    CASE req.search = "" -> 3
      [] req.search = "a" -> 2
      [] OTHER -> 1

\* err.message of the Error a failed call ends with.
ServiceErrorMessage(outcome) ==
    IF outcome = "http500"
    THEN "API Error: 500 Internal Server Error"
    ELSE "Failed to fetch"

PageErrorMessage(outcome) ==
    IF outcome = "http500"
    THEN "HTTP error! status: 500"
    ELSE "Failed to fetch"

CrmErrorMessage(outcome) ==
    IF outcome = "http500"
    THEN "Failed to fetch users: Internal Server Error"
    ELSE "Failed to fetch"

\* ------------------------------------------------------------------ requests in flight

NoClosure == [search |-> "", page |-> 0, pageSize |-> 0]

\* A request awaited by a component instance: the request, the values its
\* continuation closed over, whether the awaiting instance is still mounted,
\* and whether it is the list request issued last by the mounted instance.
Pending(req, k, live) ==
    [req |-> req, k |-> k, live |-> live, latest |-> live /\ req.kind = "GET"]

\* The outstanding requests with one more; a list request issued by the mounted
\* instance takes the mark "latest" from the one that had it.
Send(queue, entry) ==
    LET S == BagToSet(queue)
        Unmark(e) == IF entry.latest THEN [e EXCEPT !.latest = FALSE] ELSE e
        T == {Unmark(e) : e \in S}
        Copies(t) == IF t \in S /\ Unmark(t) = t THEN CopiesIn(t, queue) ELSE 0
        Marked(t) == [t EXCEPT !.latest = TRUE]
        Moved(t) == IF entry.latest /\ Marked(t) \in S THEN CopiesIn(Marked(t), queue) ELSE 0
    IN  [t \in T |-> Copies(t) + Moved(t)] (+) SetToBag({entry})

Remove(queue, entry) == queue (-) SetToBag({entry})

CanSend == BagCardinality(inflight) < MaxInflight

\* The observation of a step: the handler, the record it is about, the answer
\* it got (confirm dialog, response), the query before it, and what it sent.
Step(op, id, ok, sent) ==
    [op |-> op, id |-> id, ok |-> ok, search |-> searchTerm, page |-> page,
     pageSize |-> pageSize, sent |-> sent]

NoBurst == [active |-> FALSE, pure |-> TRUE, sent |-> 0]

\* ------------------------------------------------------------------ rows

\* The User records the Directory Service holds, with the fields the editors read.
Customer(uuid) ==
    IF uuid = "u1"
    THEN [login |-> [uuid |-> "u1", username |-> <<"a", "l">>],
          name |-> [title |-> <<"M", "s">>, first |-> <<"A", "l">>, last |-> <<"B", "o">>],
          email |-> <<"a", "@", "b", ".", "c", "o">>,
          gender |-> <<"f">>,
          phone |-> <<"(", "5", "5", "5", ")", " ", "1", "2", "3", "-", "4", "5", "6", "7">>,
          cell |-> <<>>,
          location |-> [street |-> [number |-> 12, name |-> <<"E", "l", "m">>],
                        city |-> <<"R", "o", "m", "e">>, state |-> <<>>,
                        country |-> <<"I", "T">>, postcode |-> <<"0", "0", "1">>]]
    ELSE [login |-> [uuid |-> uuid, username |-> <<"c", "y">>],
          name |-> [title |-> <<>>, first |-> <<"C", "y">>, last |-> <<"D", "o">>],
          email |-> <<"c", "@", "d", ".", "i", "o">>,
          gender |-> <<>>,
          phone |-> <<>>,
          cell |-> <<>>,
          location |-> [street |-> [number |-> 0, name |-> <<>>],
                        city |-> <<>>, state |-> <<>>,
                        country |-> <<>>, postcode |-> <<>>]]

\* The row objects a list answer brings.
FreshRows == [u \in Uuids |-> Customer(u)]

\* ------------------------------------------------------------------ fetching the list

\* The part of a list fetch before its await: setLoading(true), setError(null)
\* and the request.  An instance that was unmounted still sends the request,
\* but React drops its state updates.
FetchStart(queue, req, live) ==
    /\ loading' = IF live THEN TRUE ELSE loading
    /\ error' = IF live THEN Null ELSE error
    /\ inflight' = Send(queue, Pending(req, NoClosure, live))
    /\ latestReq' = IF live THEN [req |-> req, outcome |-> "pending"] ELSE latestReq

\* CustomersDataTable.fetchCustomers, to the await of usersApiService.getUsers
fetchCustomers(queue, search, currentPage, currentPageSize, live) ==
    FetchStart(queue, ListRequest(search, currentPage, currentPageSize, "name.first"), live)

\* Customers.fetchUsers (the page with useDebounce), to the await of fetch
fetchUsers(currentPage, currentPageSize, search) ==
    FetchStart(inflight, ListRequest(search, currentPage, currentPageSize, ""), TRUE)

\* CrmCustomersTable.fetchUsers, to the await of fetch
CrmFetchUsers(search, currentPage, perPage) ==
    FetchStart(inflight, ListRequest(search, currentPage, perPage, ""), TRUE)

\* The settlement of a list request: what its continuation does to latestReq.
Answered(entry, outcome) ==
    IF entry.latest THEN [latestReq EXCEPT !.outcome = outcome] ELSE latestReq

\* ------------------------------------------------------------------ Customers page with useDebounce

\* useEffect(() => fetchUsers(page, pageSize, debouncedSearchTerm), [those]):
\* runs after a render in which one of the dependencies changed.
PageFetchEffect(op, ok) ==
    IF <<page', pageSize', debouncedSearchTerm'>> # <<page, pageSize, debouncedSearchTerm>>
    THEN /\ CanSend
         /\ fetchUsers(page', pageSize', debouncedSearchTerm')
         /\ last' = Step(op, "", ok,
                         <<ListRequest(debouncedSearchTerm', page', pageSize', "")>>)
    ELSE /\ UNCHANGED <<loading, error, inflight, latestReq>>
         /\ last' = Step(op, "", ok, <<>>)

\* handleSearchChange: setSearchTerm(value), page back to 0; useDebounce's
\* effect clears the pending timeout and starts a new one for the new value.
PageHandleSearchChange(value) ==
    /\ app = "CustomersPage"
    /\ value # searchTerm
    /\ searchTerm' = value
    /\ page' = 0
    /\ timer' = [pending |-> TRUE, value |-> value]
    /\ UNCHANGED <<pageSize, debouncedSearchTerm, users, total, app, statsVars, pageVars, modalVars>>
    /\ PageFetchEffect("handleSearchChange", TRUE)
    /\ burst' = IF burst.active
                THEN [burst EXCEPT !.sent = IF burst.pure THEN @ + Len(last'.sent) ELSE @]
                ELSE [active |-> TRUE, pure |-> TRUE, sent |-> Len(last'.sent)]

\* handlePaginationModelChange: setPaginationModel(model)
handlePaginationModelChange(newPage, newPageSize) ==
    /\ app = "CustomersPage"
    /\ page' = newPage
    /\ pageSize' = newPageSize
    /\ UNCHANGED <<searchTerm, debouncedSearchTerm, timer, users, total, app, statsVars, pageVars, modalVars>>
    /\ PageFetchEffect("handlePaginationModelChange", TRUE)
    /\ burst' = IF burst.active THEN [burst EXCEPT !.pure = FALSE] ELSE burst

\* a timeout callback that lets the value go instead of setting it
debounceTimeoutDropsValue ==
    /\ app = "CustomersPage"
    /\ timer.pending
    /\ timer' = [timer EXCEPT !.pending = FALSE]
    /\ UNCHANGED <<debouncedSearchTerm, searchTerm, page, pageSize, users, total, app,
                   statsVars, pageVars, modalVars>>
    /\ PageFetchEffect("debounceTimeout", burst.active)
    /\ burst' = [burst EXCEPT !.active = FALSE]

\* useDebounce's setTimeout callback: setDebouncedValue(value).  last.ok tells
\* whether the timeout ends a run of keystrokes (not the timeout of the mount).
debounceTimeout ==
    /\ app = "CustomersPage"
    /\ timer.pending
    /\ debouncedSearchTerm' = timer.value
    /\ timer' = [timer EXCEPT !.pending = FALSE]
    /\ UNCHANGED <<searchTerm, page, pageSize, users, total, app, statsVars, pageVars, modalVars>>
    /\ PageFetchEffect("debounceTimeout", burst.active)
    /\ burst' = [burst EXCEPT !.active = FALSE,
                              !.sent = IF burst.pure THEN @ + Len(last'.sent) ELSE @]

\* fetchUsers after the await, response.ok: setUsers, setTotalUsers, setLoading(false)
PageFetchUsersOk(e) ==
    /\ app = "CustomersPage"
    /\ BagIn(e, inflight)
    /\ e.req.kind = "GET"
    /\ users' = ResponseData(e.req)
    /\ total' = ResponseTotal(e.req)
    /\ loading' = FALSE
    /\ inflight' = Remove(inflight, e)
    /\ latestReq' = Answered(e, "ok")
    /\ last' = Step("fetchUsersOk", "", TRUE, <<>>)
    /\ UNCHANGED <<error, searchTerm, page, pageSize, debouncedSearchTerm, timer,
                   app, statsVars, pageVars, modalVars, burst>>

\* fetchUsers after the await, !response.ok or a rejected fetch: the catch
\* block stores the message and empties the rows and the total.
PageFetchUsersFail(e, outcome) ==
    /\ app = "CustomersPage"
    /\ BagIn(e, inflight)
    /\ e.req.kind = "GET"
    /\ outcome # "ok"
    /\ error' = PageErrorMessage(outcome)
    /\ users' = <<>>
    /\ total' = 0
    /\ loading' = FALSE
    /\ inflight' = Remove(inflight, e)
    /\ latestReq' = Answered(e, outcome)
    /\ last' = Step("fetchUsersFail", "", FALSE, <<>>)
    /\ UNCHANGED <<searchTerm, page, pageSize, debouncedSearchTerm, timer,
                   app, statsVars, pageVars, modalVars, burst>>

\* ------------------------------------------------------------------ CustomersDataTable

\* What the table offers: with an error set the component returns the error
\* card, whose only control is "Try Again"; an open dialog covers the page.
TableShown == app = "CustomersDataTable" /\ error = Null /\ ~modalOpen

\* useEffect(() => fetchCustomers(searchQuery, page, pageSize), [those])
TableFetchEffect(op) ==
    IF <<searchTerm', page', pageSize'>> # <<searchTerm, page, pageSize>>
    THEN /\ CanSend
         /\ fetchCustomers(inflight, searchTerm', page', pageSize', TRUE)
         /\ last' = Step(op, "", TRUE,
                         <<ListRequest(searchTerm', page', pageSize', "name.first")>>)
    ELSE /\ UNCHANGED <<loading, error, inflight, latestReq>>
         /\ last' = Step(op, "", TRUE, <<>>)

\* handleSearch without its setPage(0)
handleSearchKeepsPage(query) ==
    /\ TableShown
    /\ query # searchTerm
    /\ searchTerm' = query
    /\ UNCHANGED <<page, pageSize, debouncedSearchTerm, timer, users, total, app, statsVars,
                   pageVars, modalVars, burst>>
    /\ TableFetchEffect("handleSearch")

\* handleSearch: setSearchQuery(query); setPage(0)
handleSearch(query) ==
    /\ TableShown
    /\ query # searchTerm
    /\ searchTerm' = query
    /\ page' = 0
    /\ UNCHANGED <<pageSize, debouncedSearchTerm, timer, users, total, app, statsVars,
                   pageVars, modalVars, burst>>
    /\ TableFetchEffect("handleSearch")

\* DataGrid onPageChange={setPage}
TableSetPage(newPage) ==
    /\ TableShown
    /\ page' = newPage
    /\ UNCHANGED <<searchTerm, pageSize, debouncedSearchTerm, timer, users, total,
                   app, statsVars, pageVars, modalVars, burst>>
    /\ TableFetchEffect("setPage")

\* DataGrid onPageSizeChange={setPageSize}
TableSetPageSize(newPageSize) ==
    /\ TableShown
    /\ pageSize' = newPageSize
    /\ UNCHANGED <<searchTerm, page, debouncedSearchTerm, timer, users, total,
                   app, statsVars, pageVars, modalVars, burst>>
    /\ TableFetchEffect("setPageSize")

\* handleRefresh: the refresh button (disabled while loading) or "Try Again"
handleRefresh ==
    /\ app = "CustomersDataTable"
    /\ ~modalOpen
    /\ error # Null \/ ~loading
    /\ CanSend
    /\ fetchCustomers(inflight, searchTerm, page, pageSize, TRUE)
    /\ last' = Step("handleRefresh", "", TRUE,
                    <<ListRequest(searchTerm, page, pageSize, "name.first")>>)
    /\ UNCHANGED <<searchTerm, page, pageSize, debouncedSearchTerm, timer, users,
                   total, app, statsVars, pageVars, modalVars, burst>>

\* handleDeleteCustomer without the early return on a declined confirmation
handleDeleteCustomerUnconfirmed(customerId, confirmed) ==
    /\ TableShown
    /\ users # <<>>
    /\ CanSend
    /\ inflight' = Send(inflight,
                        Pending(DeleteRequest(customerId),
                                [search |-> searchTerm, page |-> page,
                                 pageSize |-> pageSize], TRUE))
    /\ last' = Step("handleDeleteCustomer", customerId, confirmed,
                    <<DeleteRequest(customerId)>>)
    /\ UNCHANGED <<listVars, app, statsVars, pageVars, modalVars, latestReq, burst>>

\* handleDeleteCustomer to its await: window.confirm, then
\* usersApiService.deleteUser(customerId).  The continuation closes over the
\* searchQuery, page and pageSize of the render the handler belongs to.
handleDeleteCustomer(customerId, confirmed) ==
    /\ TableShown
    /\ users # <<>>
    /\ IF confirmed
       THEN /\ CanSend
            /\ inflight' = Send(inflight,
                                Pending(DeleteRequest(customerId),
                                        [search |-> searchTerm, page |-> page,
                                         pageSize |-> pageSize], TRUE))
            /\ last' = Step("handleDeleteCustomer", customerId, TRUE,
                            <<DeleteRequest(customerId)>>)
       ELSE /\ UNCHANGED inflight
            /\ last' = Step("handleDeleteCustomer", customerId, FALSE, <<>>)
    /\ UNCHANGED <<listVars, app, statsVars, pageVars, modalVars, latestReq, burst>>

\* handleDeleteCustomer after the await, deleteUser resolved:
\* fetchCustomers(searchQuery, page, pageSize) with the values closed over
deleteUserOk(e) ==
    /\ app = "CustomersDataTable"
    /\ BagIn(e, inflight)
    /\ e.req.kind = "DELETE"
    /\ fetchCustomers(Remove(inflight, e), e.k.search, e.k.page,
                      e.k.pageSize, e.live)
    /\ last' = Step("deleteUserOk", e.req.id, TRUE,
                    <<ListRequest(e.k.search, e.k.page,
                                  e.k.pageSize, "name.first")>>)
    /\ UNCHANGED <<searchTerm, page, pageSize, debouncedSearchTerm, timer, users,
                   total, app, statsVars, pageVars, modalVars, burst>>

\* The catch block of handleDeleteCustomer refreshing the list as well
deleteUserFailRefetches(e, outcome) ==
    /\ app = "CustomersDataTable"
    /\ BagIn(e, inflight)
    /\ e.req.kind = "DELETE"
    /\ outcome # "ok"
    /\ fetchCustomers(Remove(inflight, e), e.k.search, e.k.page, e.k.pageSize, e.live)
    /\ last' = Step("deleteUserFail", e.req.id, FALSE,
                    <<ListRequest(e.k.search, e.k.page, e.k.pageSize, "name.first")>>)
    /\ UNCHANGED <<searchTerm, page, pageSize, debouncedSearchTerm, timer, users,
                   total, app, statsVars, pageVars, modalVars, burst>>

\* handleDeleteCustomer after the await, deleteUser rejected: setError(message)
deleteUserFail(e, outcome) ==
    /\ app = "CustomersDataTable"
    /\ BagIn(e, inflight)
    /\ e.req.kind = "DELETE"
    /\ outcome # "ok"
    /\ error' = IF e.live THEN ServiceErrorMessage(outcome) ELSE error
    /\ inflight' = Remove(inflight, e)
    /\ last' = Step("deleteUserFail", e.req.id, FALSE, <<>>)
    /\ UNCHANGED <<searchTerm, page, pageSize, debouncedSearchTerm, timer, users,
                   total, loading, app, statsVars, pageVars, modalVars, latestReq, burst>>

\* fetchCustomers after the await, getUsers resolved
fetchCustomersOk(e) ==
    /\ app = "CustomersDataTable"
    /\ BagIn(e, inflight)
    /\ e.req.kind = "GET"
    /\ users' = IF e.live THEN ResponseData(e.req) ELSE users
    /\ total' = IF e.live THEN ResponseTotal(e.req) ELSE total
    /\ loading' = IF e.live THEN FALSE ELSE loading
    /\ inflight' = Remove(inflight, e)
    /\ latestReq' = Answered(e, "ok")
    /\ last' = Step("fetchCustomersOk", "", TRUE, <<>>)
    /\ UNCHANGED <<error, searchTerm, page, pageSize, debouncedSearchTerm, timer,
                   app, statsVars, pageVars, modalVars, burst>>

\* fetchCustomers whose catch block is not followed by the finally block
fetchCustomersFailNoFinally(e, outcome) ==
    /\ app = "CustomersDataTable"
    /\ BagIn(e, inflight)
    /\ e.req.kind = "GET"
    /\ outcome # "ok"
    /\ error' = IF e.live THEN ServiceErrorMessage(outcome) ELSE error
    /\ inflight' = Remove(inflight, e)
    /\ latestReq' = Answered(e, outcome)
    /\ last' = Step("fetchCustomersFail", "", FALSE, <<>>)
    /\ UNCHANGED <<users, total, loading, searchTerm, page, pageSize, debouncedSearchTerm,
                   timer, app, statsVars, pageVars, modalVars, burst>>

\* fetchCustomers after the await, getUsers rejected: setError(message)
fetchCustomersFail(e, outcome) ==
    /\ app = "CustomersDataTable"
    /\ BagIn(e, inflight)
    /\ e.req.kind = "GET"
    /\ outcome # "ok"
    /\ error' = IF e.live THEN ServiceErrorMessage(outcome) ELSE error
    /\ loading' = IF e.live THEN FALSE ELSE loading
    /\ inflight' = Remove(inflight, e)
    /\ latestReq' = Answered(e, outcome)
    /\ last' = Step("fetchCustomersFail", "", FALSE, <<>>)
    /\ UNCHANGED <<users, total, searchTerm, page, pageSize, debouncedSearchTerm,
                   timer, app, statsVars, pageVars, modalVars, burst>>

\* ------------------------------------------------------------------ CrmCustomersTable

\* The effect calling fetchUsers with the values of the render before
CrmFetchEffectStale(op) ==
    IF <<searchTerm', page', pageSize'>> # <<searchTerm, page, pageSize>>
    THEN /\ CanSend
         /\ CrmFetchUsers(searchTerm, page, pageSize)
         /\ last' = Step(op, "", TRUE, <<ListRequest(searchTerm, page, pageSize, "")>>)
    ELSE /\ UNCHANGED <<loading, error, inflight, latestReq>>
         /\ last' = Step(op, "", TRUE, <<>>)

\* useEffect(() => fetchUsers(searchTerm, page, rowsPerPage), [those])
CrmFetchEffect(op) ==
    IF <<searchTerm', page', pageSize'>> # <<searchTerm, page, pageSize>>
    THEN /\ CanSend
         /\ CrmFetchUsers(searchTerm', page', pageSize')
         /\ last' = Step(op, "", TRUE, <<ListRequest(searchTerm', page', pageSize', "")>>)
    ELSE /\ UNCHANGED <<loading, error, inflight, latestReq>>
         /\ last' = Step(op, "", TRUE, <<>>)

\* handleSearchChange: setSearchTerm(value); setPage(0)
CrmHandleSearchChange(value) ==
    /\ app = "CrmCustomersTable"
    /\ ~modalOpen
    /\ value # searchTerm
    /\ searchTerm' = value
    /\ page' = 0
    /\ UNCHANGED <<pageSize, debouncedSearchTerm, timer, users, total, app, statsVars,
                   pageVars, modalVars, burst>>
    /\ CrmFetchEffect("handleSearchChange")

\* handleChangePage: setPage(newPage); the pagination is rendered when not loading
handleChangePage(newPage) ==
    /\ app = "CrmCustomersTable"
    /\ ~modalOpen
    /\ ~loading
    /\ page' = newPage
    /\ UNCHANGED <<searchTerm, pageSize, debouncedSearchTerm, timer, users, total,
                   app, statsVars, pageVars, modalVars, burst>>
    /\ CrmFetchEffect("handleChangePage")

\* handleChangeRowsPerPage: setRowsPerPage(parseInt(value, 10)); setPage(0)
handleChangeRowsPerPage(newRowsPerPage) ==
    /\ app = "CrmCustomersTable"
    /\ ~modalOpen
    /\ ~loading
    /\ pageSize' = newRowsPerPage
    /\ page' = 0
    /\ UNCHANGED <<searchTerm, debouncedSearchTerm, timer, users, total, app, statsVars,
                   pageVars, modalVars, burst>>
    /\ CrmFetchEffect("handleChangeRowsPerPage")

\* fetchUsers after the await, response.ok
CrmFetchUsersOk(e) ==
    /\ app = "CrmCustomersTable"
    /\ BagIn(e, inflight)
    /\ e.req.kind = "GET"
    /\ users' = IF e.live THEN ResponseData(e.req) ELSE users
    /\ total' = IF e.live THEN ResponseTotal(e.req) ELSE total
    /\ loading' = IF e.live THEN FALSE ELSE loading
    /\ inflight' = Remove(inflight, e)
    /\ latestReq' = Answered(e, "ok")
    /\ heap' = IF e.live THEN [rows |-> FreshRows, shared |-> FALSE] ELSE heap
    /\ last' = Step("fetchUsersOk", "", TRUE, <<>>)
    /\ UNCHANGED <<error, searchTerm, page, pageSize, debouncedSearchTerm, timer,
                   app, statsVars, refreshKey, modalOpen, selectedCustomer, modalVars, burst>>

\* fetchUsers after the await, !response.ok or a rejected fetch
CrmFetchUsersFail(e, outcome) ==
    /\ app = "CrmCustomersTable"
    /\ BagIn(e, inflight)
    /\ e.req.kind = "GET"
    /\ outcome # "ok"
    /\ error' = IF e.live THEN CrmErrorMessage(outcome) ELSE error
    /\ loading' = IF e.live THEN FALSE ELSE loading
    /\ inflight' = Remove(inflight, e)
    /\ latestReq' = Answered(e, outcome)
    /\ last' = Step("fetchUsersFail", "", FALSE, <<>>)
    /\ UNCHANGED <<users, total, searchTerm, page, pageSize, debouncedSearchTerm,
                   timer, app, statsVars, pageVars, modalVars, burst>>

\* ------------------------------------------------------------------ strings

\* A string is a sequence of characters, so that trimming and the regular
\* expressions of the validation act on what was typed.
IsSpace(c) == c = " "

IsDigit(c) == c \in {"0", "1", "2", "3", "4", "5", "6", "7", "8", "9"}

\* [^\s@]
IsEmailChar(c) == ~IsSpace(c) /\ c # "@"

RECURSIVE TrimStart(_)
TrimStart(s) == IF s # <<>> /\ IsSpace(Head(s)) THEN TrimStart(Tail(s)) ELSE s

RECURSIVE TrimEnd(_)
TrimEnd(s) ==
    IF s # <<>> /\ IsSpace(s[Len(s)]) THEN TrimEnd(SubSeq(s, 1, Len(s) - 1)) ELSE s

\* String.prototype.trim
Trim(s) == TrimEnd(TrimStart(s))

\* an email test that asks for the "@" only
IsEmailShapeNoDot(s) ==
    \E at \in 2..(Len(s) - 1) :
        /\ s[at] = "@"
        /\ \A i \in 1..Len(s) : (i # at) => IsEmailChar(s[i])

\* /^[^\s@]+@[^\s@]+\.[^\s@]+$/.test(s)
IsEmailShape(s) ==
    \E at \in 2..Len(s) : \E dot \in (at + 2)..(Len(s) - 1) :
        /\ s[at] = "@"
        /\ s[dot] = "."
        /\ \A i \in 1..Len(s) : (i # at) => IsEmailChar(s[i])

\* s.replace(/\D/g, '')
DigitsOf(s) == SelectSeq(s, IsDigit)

\* a phone test with no upper limit
IsPhoneDigitsNoMax(s) == Len(s) >= 10 /\ \A i \in 1..Len(s) : IsDigit(s[i])

\* /^\d{10,15}$/.test(s)
IsPhoneDigits(s) == Len(s) >= 10 /\ Len(s) <= 15 /\ \A i \in 1..Len(s) : IsDigit(s[i])

\* a street number test that lets a sign through
IsAllDigitsOrSigned(s) ==
    /\ s # <<>>
    /\ \A i \in 1..Len(s) : IsDigit(s[i]) \/ (i = 1 /\ s[i] = "-" /\ Len(s) > 1)

\* /^\d+$/.test(s)
IsAllDigits(s) == s # <<>> /\ \A i \in 1..Len(s) : IsDigit(s[i])

DigitChar(d) == <<"0", "1", "2", "3", "4", "5", "6", "7", "8", "9">>[d + 1]

\* Number.prototype.toString of a non-negative integer
RECURSIVE NumberToString(_)
NumberToString(n) ==
    IF n < 10 THEN <<DigitChar(n)>>
    ELSE Append(NumberToString(n \div 10), DigitChar(n % 10))

\* ------------------------------------------------------------------ numbers

\* A JavaScript value in a place of a request body that holds a number:
\* a number, NaN, or undefined (the key is then left out of the JSON).
Number(n) == [kind |-> "number", value |-> n]

NaN == [kind |-> "NaN", value |-> 0]

Undefined == [kind |-> "undefined", value |-> 0]

DigitValue(c) == CHOOSE d \in 0..9 : DigitChar(d) = c

\* The longest run of digits a string starts with.
RECURSIVE DigitPrefix(_)
DigitPrefix(s) ==
    IF s # <<>> /\ IsDigit(Head(s)) THEN <<Head(s)>> \o DigitPrefix(Tail(s)) ELSE <<>>

\* The value of a run of digits, read in base 10.
RECURSIVE DigitsValue(_)
DigitsValue(s) ==
    IF s = <<>> THEN 0
    ELSE 10 * DigitsValue(SubSeq(s, 1, Len(s) - 1)) + DigitValue(s[Len(s)])

\* parseInt(s, 10): leading white space is skipped, a sign is read, then the
\* digits up to the first character that is none; NaN if there is no digit.
ParseInt(s) ==
    LET t == TrimStart(s)
        signed == t # <<>> /\ Head(t) \in {"+", "-"}
        u == IF signed THEN Tail(t) ELSE t
        d == DigitPrefix(u)
    IN  IF d = <<>> THEN NaN
        ELSE IF signed /\ Head(t) = "-" THEN Number(0 - DigitsValue(d))
        ELSE Number(DigitsValue(d))

\* ------------------------------------------------------------------ CustomerModal

FormFields == {"title", "firstName", "lastName", "email", "username", "gender",
               "phone", "cell", "streetNumber", "streetName", "city", "state",
               "country", "postcode"}

\* The keys of FormErrors.
ErrorFields == {"firstName", "lastName", "email", "username", "phone",
                "streetNumber", "streetName", "city", "state", "country", "postcode"}

Male == <<"m", "a", "l", "e">>

\* x || 'male'
OrMale(s) == IF s = <<>> THEN Male ELSE s

\* The draft the effect sets when there is no customer.
NewCustomerFormData ==
    [f \in FormFields |->
        CASE f = "title" -> <<"M", "r">>
          [] f = "gender" -> Male
          [] OTHER -> <<>>]

\* The draft the effect sets from the customer given.
CustomerFormData(c) ==
    [f \in FormFields |->
        CASE f = "title" -> c.name.title
          [] f = "firstName" -> c.name.first
          [] f = "lastName" -> c.name.last
          [] f = "email" -> c.email
          [] f = "username" -> c.login.username
          [] f = "gender" -> OrMale(c.gender)
          [] f = "phone" -> c.phone
          [] f = "cell" -> c.cell
          [] f = "streetNumber" -> NumberToString(c.location.street.number)
          [] f = "streetName" -> c.location.street.name
          [] f = "city" -> c.location.city
          [] f = "state" -> c.location.state
          [] f = "country" -> c.location.country
          [] OTHER -> c.location.postcode]

NoErrors == [f \in ErrorFields |-> ""]

\* useEffect(..., [customer, open]): load the draft, setErrors({}), setError(null)
LoadedFormData(customer) ==
    IF customer # <<>> THEN CustomerFormData(customer[1]) ELSE NewCustomerFormData

\* const isEditing = Boolean(customer)
IsEditing == selectedCustomer # <<>>

\* a validation that never asks for the username
validateFormUsernameOptional(draft, editing) ==
    [f \in ErrorFields |->
        CASE f = "firstName" ->
                 IF Trim(draft.firstName) = <<>> THEN "First name is required" ELSE ""
          [] f = "lastName" ->
                 IF Trim(draft.lastName) = <<>> THEN "Last name is required" ELSE ""
          [] f = "email" ->
                 IF Trim(draft.email) = <<>> THEN "Email is required"
                 ELSE IF ~IsEmailShape(draft.email)
                      THEN "Please enter a valid email address" ELSE ""
          [] f = "username" ->
                 ""
          [] f = "phone" ->
                 IF draft.phone # <<>> /\ ~IsPhoneDigits(DigitsOf(draft.phone))
                 THEN "Please enter a valid phone number" ELSE ""
          [] f = "streetNumber" ->
                 IF draft.streetNumber # <<>> /\ ~IsAllDigits(draft.streetNumber)
                 THEN "Street number must be a number" ELSE ""
          [] OTHER -> ""]

\* a validation that asks for the username in edit mode too
validateFormUsernameAlways(draft, editing) ==
    [f \in ErrorFields |->
        CASE f = "firstName" ->
                 IF Trim(draft.firstName) = <<>> THEN "First name is required" ELSE ""
          [] f = "lastName" ->
                 IF Trim(draft.lastName) = <<>> THEN "Last name is required" ELSE ""
          [] f = "email" ->
                 IF Trim(draft.email) = <<>> THEN "Email is required"
                 ELSE IF ~IsEmailShape(draft.email)
                      THEN "Please enter a valid email address" ELSE ""
          [] f = "username" ->
                 IF Trim(draft.username) = <<>>
                 THEN "Username is required" ELSE ""
          [] f = "phone" ->
                 IF draft.phone # <<>> /\ ~IsPhoneDigits(DigitsOf(draft.phone))
                 THEN "Please enter a valid phone number" ELSE ""
          [] f = "streetNumber" ->
                 IF draft.streetNumber # <<>> /\ ~IsAllDigits(draft.streetNumber)
                 THEN "Street number must be a number" ELSE ""
          [] OTHER -> ""]

\* validateForm: the newErrors it builds for a draft
validateForm(draft, editing) ==
    [f \in ErrorFields |->
        CASE f = "firstName" ->
                 IF Trim(draft.firstName) = <<>> THEN "First name is required" ELSE ""
          [] f = "lastName" ->
                 IF Trim(draft.lastName) = <<>> THEN "Last name is required" ELSE ""
          [] f = "email" ->
                 IF Trim(draft.email) = <<>> THEN "Email is required"
                 ELSE IF ~IsEmailShape(draft.email)
                      THEN "Please enter a valid email address" ELSE ""
          [] f = "username" ->
                 IF ~editing /\ Trim(draft.username) = <<>>
                 THEN "Username is required" ELSE ""
          [] f = "phone" ->
                 IF draft.phone # <<>> /\ ~IsPhoneDigits(DigitsOf(draft.phone))
                 THEN "Please enter a valid phone number" ELSE ""
          [] f = "streetNumber" ->
                 IF draft.streetNumber # <<>> /\ ~IsAllDigits(draft.streetNumber)
                 THEN "Street number must be a number" ELSE ""
          [] OTHER -> ""]

\* Object.keys(newErrors).length === 0
IsValid(newErrors) == \A f \in ErrorFields : newErrors[f] = ""

\* updateData of handleSubmit
UpdateData(draft) ==
    [name |-> [title |-> draft.title, first |-> draft.firstName, last |-> draft.lastName],
     email |-> draft.email,
     gender |-> draft.gender,
     phone |-> draft.phone,
     cell |-> draft.cell,
     location |-> [street |-> [number |-> IF draft.streetNumber # <<>>
                                          THEN ParseInt(draft.streetNumber) ELSE Undefined,
                               name |-> draft.streetName],
                   city |-> draft.city, state |-> draft.state,
                   country |-> draft.country, postcode |-> draft.postcode]]

\* createData of handleSubmit
CreateData(draft) ==
    [email |-> draft.email,
     login |-> [username |-> draft.username, password |-> "defaultPassword123"],
     name |-> [title |-> draft.title, first |-> draft.firstName, last |-> draft.lastName],
     gender |-> draft.gender,
     location |-> [street |-> [number |-> IF draft.streetNumber # <<>>
                                          THEN ParseInt(draft.streetNumber) ELSE Number(0),
                               name |-> draft.streetName],
                   city |-> draft.city, state |-> draft.state,
                   country |-> draft.country, postcode |-> draft.postcode]]

\* A request with the JSON body it carries.
WithBody(req, body) ==
    [f \in DOMAIN req \cup {"body"} |-> IF f = "body" THEN body ELSE req[f]]

\* POST /users and PUT /users/{id}
CreateRequest ==
    [kind |-> "POST", id |-> "", search |-> "", page |-> 0, perPage |-> 0, sortBy |-> ""]

UpdateRequest(id) ==
    [kind |-> "PUT", id |-> id, search |-> "", page |-> 0, perPage |-> 0, sortBy |-> ""]

\* The request handleSubmit sends for a draft: updateUser(customer.login.uuid,
\* updateData) when a customer is loaded, createUser(createData) when none is.
SubmitRequest(draft) ==
    IF IsEditing
    THEN WithBody(UpdateRequest(selectedCustomer[1].login.uuid), UpdateData(draft))
    ELSE WithBody(CreateRequest, CreateData(draft))

\* Requests awaited by an unmounted table: React drops what their
\* continuations set.
Unmounted(queue) ==
    LET S == BagToSet(queue)
        Dead(e) == IF e.req.kind \in {"GET", "DELETE"}
                   THEN [e EXCEPT !.live = FALSE, !.latest = FALSE] ELSE e
        T == {Dead(e) : e \in S}
    IN  [t \in T |-> BagCardinality([e \in {x \in S : Dead(x) = t} |-> CopiesIn(e, queue)])]

\* key={refreshKey} changed: CustomersDataTable is unmounted and mounted anew,
\* with its initial state and the fetch of its mount effect.
TableRemount(queue) ==
    /\ users' = <<>>
    /\ total' = 0
    /\ searchTerm' = ""
    /\ page' = 0
    /\ pageSize' = InitialPageSize(app)
    /\ fetchCustomers(Unmounted(queue), "", 0, InitialPageSize(app), TRUE)

\* handleEditCustomer opening the editor without the modal's effect
handleEditCustomerKeepsDraft(uuid) ==
    /\ TableShown
    /\ users # <<>>
    /\ selectedCustomer' = <<Customer(uuid)>>
    /\ modalOpen' = TRUE
    /\ last' = Step("handleEditCustomer", uuid, TRUE, <<>>)
    /\ UNCHANGED <<listVars, app, statsVars, refreshKey, heap, modalVars, inflight, latestReq, burst>>

\* page: handleEditCustomer(customer) from a row's Edit action; the modal's
\* effect loads the customer
handleEditCustomer(uuid) ==
    /\ TableShown
    /\ users # <<>>
    /\ selectedCustomer' = <<Customer(uuid)>>
    /\ modalOpen' = TRUE
    /\ formData' = LoadedFormData(selectedCustomer')
    /\ errors' = NoErrors
    /\ modalError' = Null
    /\ last' = Step("handleEditCustomer", uuid, TRUE, <<>>)
    /\ UNCHANGED <<listVars, app, statsVars, refreshKey, heap, editedUser, modalLoading, inflight,
                   latestReq, burst>>

\* page: handleAddCustomer from the Add Customer button
handleAddCustomer ==
    /\ TableShown
    /\ selectedCustomer' = <<>>
    /\ modalOpen' = TRUE
    /\ formData' = LoadedFormData(selectedCustomer')
    /\ errors' = NoErrors
    /\ modalError' = Null
    /\ last' = Step("handleAddCustomer", "", TRUE, <<>>)
    /\ UNCHANGED <<listVars, app, statsVars, refreshKey, heap, editedUser, modalLoading, inflight,
                   latestReq, burst>>

\* page: handleCloseModal; then the modal's effect, if customer or open changed:
\* the draft for no customer, setErrors({}), setError(null)
CloseCustomerModal ==
    /\ modalOpen' = FALSE
    /\ selectedCustomer' = <<>>
    /\ formData' = IF <<selectedCustomer, modalOpen>> # <<selectedCustomer', modalOpen'>>
                   THEN LoadedFormData(selectedCustomer') ELSE formData
    /\ errors' = IF <<selectedCustomer, modalOpen>> # <<selectedCustomer', modalOpen'>>
                 THEN NoErrors ELSE errors
    /\ modalError' = IF <<selectedCustomer, modalOpen>> # <<selectedCustomer', modalOpen'>>
                     THEN Null ELSE modalError

\* handleInputChange clearing every recorded error
handleInputChangeClearsAll(field, value) ==
    /\ app = "CustomersDataTable"
    /\ modalOpen
    /\ value # formData[field]
    /\ formData' = [formData EXCEPT ![field] = value]
    /\ errors' = NoErrors
    /\ last' = Step("handleInputChange", "", TRUE, <<>>)
    /\ UNCHANGED <<listVars, app, statsVars, pageVars, editedUser, modalLoading, modalError,
                   inflight, latestReq, burst>>

\* handleInputChange(field): set the field, clear the error recorded for it
handleInputChange(field, value) ==
    /\ app = "CustomersDataTable"
    /\ modalOpen
    /\ value # formData[field]
    /\ formData' = [formData EXCEPT ![field] = value]
    /\ errors' = IF field \in ErrorFields /\ errors[field] # ""
                 THEN [errors EXCEPT ![field] = ""] ELSE errors
    /\ last' = Step("handleInputChange", "", TRUE, <<>>)
    /\ UNCHANGED <<listVars, app, statsVars, pageVars, editedUser, modalLoading, modalError,
                   inflight, latestReq, burst>>

\* handleSubmit sending whatever the validation says
handleSubmitUnvalidated ==
    /\ app = "CustomersDataTable"
    /\ modalOpen
    /\ ~modalLoading
    /\ errors' = validateForm(formData, IsEditing)
    /\ CanSend
    /\ refreshKey < MaxRefresh
    /\ modalLoading' = TRUE
    /\ modalError' = Null
    /\ LET req == SubmitRequest(formData)
       IN  /\ inflight' = Send(inflight, Pending(req, NoClosure, TRUE))
           /\ last' = Step("handleSubmit", req.id, IsValid(errors'), <<req>>)
    /\ UNCHANGED <<listVars, app, statsVars, pageVars, formData, editedUser, latestReq, burst>>

\* handleSubmit that creates a customer even when one is loaded
handleSubmitAlwaysCreates ==
    /\ app = "CustomersDataTable"
    /\ modalOpen
    /\ ~modalLoading
    /\ errors' = validateForm(formData, IsEditing)
    /\ IF IsValid(errors')
       THEN /\ CanSend
            /\ refreshKey < MaxRefresh
            /\ modalLoading' = TRUE
            /\ modalError' = Null
            /\ LET req == WithBody(CreateRequest, CreateData(formData))
               IN  /\ inflight' = Send(inflight, Pending(req, NoClosure, TRUE))
                   /\ last' = Step("handleSubmit", req.id, TRUE, <<req>>)
       ELSE /\ UNCHANGED <<modalLoading, modalError, inflight>>
            /\ last' = Step("handleSubmit", "", FALSE, <<>>)
    /\ UNCHANGED <<listVars, app, statsVars, pageVars, formData, editedUser, latestReq, burst>>

\* handleSubmit to its await: validateForm, then updateUser or createUser
handleSubmit ==
    /\ app = "CustomersDataTable"
    /\ modalOpen
    /\ ~modalLoading
    /\ errors' = validateForm(formData, IsEditing)
    /\ IF IsValid(errors')
       THEN /\ CanSend
            /\ refreshKey < MaxRefresh
            /\ modalLoading' = TRUE
            /\ modalError' = Null
            /\ LET req == SubmitRequest(formData)
               IN  /\ inflight' = Send(inflight, Pending(req, NoClosure, TRUE))
                   /\ last' = Step("handleSubmit", req.id, TRUE, <<req>>)
       ELSE /\ UNCHANGED <<modalLoading, modalError, inflight>>
            /\ last' = Step("handleSubmit", "", FALSE, <<>>)
    /\ UNCHANGED <<listVars, app, statsVars, pageVars, formData, editedUser, latestReq, burst>>

\* handleSubmit after the await, the call resolved: onSave() (the page's
\* handleSaveCustomer: setRefreshKey(prev + 1)), onClose() (handleCloseModal),
\* setLoading(false)
submitOk(e) ==
    /\ app = "CustomersDataTable"
    /\ BagIn(e, inflight)
    /\ e.req.kind \in {"PUT", "POST"}
    /\ refreshKey' = refreshKey + 1
    /\ TableRemount(Remove(inflight, e))
    /\ CloseCustomerModal
    /\ modalLoading' = FALSE
    /\ last' = Step("submitOk", e.req.id, TRUE,
                    <<ListRequest("", 0, InitialPageSize(app), "name.first")>>)
    /\ UNCHANGED <<debouncedSearchTerm, timer, app, statsVars, heap, editedUser, burst>>

\* a rejected call that also closes the editor
submitFailClosesEditor(e, outcome) ==
    /\ app = "CustomersDataTable"
    /\ BagIn(e, inflight)
    /\ e.req.kind \in {"PUT", "POST"}
    /\ outcome # "ok"
    /\ modalOpen' = FALSE
    /\ selectedCustomer' = <<>>
    /\ formData' = NewCustomerFormData
    /\ errors' = NoErrors
    /\ modalError' = ServiceErrorMessage(outcome)
    /\ modalLoading' = FALSE
    /\ inflight' = Remove(inflight, e)
    /\ last' = Step("submitFail", e.req.id, FALSE, <<>>)
    /\ UNCHANGED <<listVars, app, statsVars, refreshKey, heap, editedUser, latestReq, burst>>

\* handleSubmit after the await, the call rejected: setError(message), setLoading(false)
submitFail(e, outcome) ==
    /\ app = "CustomersDataTable"
    /\ BagIn(e, inflight)
    /\ e.req.kind \in {"PUT", "POST"}
    /\ outcome # "ok"
    /\ modalError' = ServiceErrorMessage(outcome)
    /\ modalLoading' = FALSE
    /\ inflight' = Remove(inflight, e)
    /\ last' = Step("submitFail", e.req.id, FALSE, <<>>)
    /\ UNCHANGED <<listVars, app, statsVars, pageVars, formData, errors, editedUser, latestReq, burst>>

\* handleClose (Cancel, the close icon, the backdrop, Escape): onClose() unless loading
handleClose ==
    /\ app = "CustomersDataTable"
    /\ modalOpen
    /\ IF ~modalLoading
       THEN CloseCustomerModal
       ELSE UNCHANGED <<modalOpen, selectedCustomer, formData, errors, modalError>>
    /\ last' = Step("handleClose", "", ~modalLoading, <<>>)
    /\ UNCHANGED <<listVars, app, statsVars, refreshKey, heap, editedUser, modalLoading, inflight,
                   latestReq, burst>>

\* ------------------------------------------------------------------ CrmEditUserModal

\* The field paths of handleFieldChange the form offers.
SetField(user, field, value) ==
    CASE field = "name.first" -> [user EXCEPT !.name.first = value]
      [] field = "name.last" -> [user EXCEPT !.name.last = value]
      [] field = "email" -> [user EXCEPT !.email = value]
      [] field = "phone" -> [user EXCEPT !.phone = value]
      [] OTHER -> [user EXCEPT !.location.city = value]

\* field.split(".").length > 1
IsNested(field) == field \in {"name.first", "name.last", "location.city"}

GetField(user, field) ==
    CASE field = "name.first" -> user.name.first
      [] field = "name.last" -> user.name.last
      [] field = "email" -> user.email
      [] field = "phone" -> user.phone
      [] OTHER -> user.location.city

\* updateData of handleSave
CrmUpdateData(user) ==
    [email |-> user.email,
     name |-> [title |-> user.name.title, first |-> user.name.first, last |-> user.name.last],
     gender |-> user.gender,
     location |-> [street |-> [number |-> Number(user.location.street.number),
                               name |-> user.location.street.name],
                   city |-> user.location.city, state |-> user.location.state,
                   country |-> user.location.country, postcode |-> user.location.postcode],
     phone |-> user.phone,
     cell |-> user.cell]

\* The PUT /users/{editedUser.login.uuid} of handleSave
SaveRequest(user) == WithBody(UpdateRequest(user.login.uuid), CrmUpdateData(user))

CrmSaveErrorMessage(outcome) ==
    IF outcome = "http500"
    THEN "Failed to update user: Internal Server Error"
    ELSE "Failed to fetch"

\* key={refreshTrigger} changed: CrmCustomersTable is unmounted and mounted anew;
\* the rows of the old instance are let go
CrmRemount(queue) ==
    /\ users' = <<>>
    /\ total' = 0
    /\ searchTerm' = ""
    /\ page' = 0
    /\ pageSize' = InitialPageSize(app)
    /\ heap' = [rows |-> FreshRows, shared |-> FALSE]
    /\ FetchStart(Unmounted(queue), ListRequest("", 0, InitialPageSize(app), ""), TRUE)

\* ------------------------------------------------------------------ statistics of the page around CrmCustomersTable

\* useState({ total: 0, newThisMonth: 0, activeUsers: 0, averageAge: 0 })
NoStats == [total |-> 0, newThisMonth |-> 0, activeUsers |-> 0, averageAge |-> 0]

\* The bodies a statistics response may have: JSON with a data array (each
\* user with dob.age and whether registered.date is in the current month) and
\* a total, or JSON without data.
StatsBodies ==
    {[hasData |-> TRUE,
      data |-> <<[age |-> 30, registeredThisMonth |-> FALSE],
                 [age |-> 41, registeredThisMonth |-> TRUE]>>,
      total |-> 3],
     [hasData |-> TRUE, data |-> <<>>, total |-> 0],
     [hasData |-> FALSE, data |-> <<>>, total |-> 0]}

RECURSIVE TotalAge(_)
\* users.reduce((sum, user) => sum + user.dob.age, 0)
TotalAge(rows) ==
    IF rows = <<>> THEN 0 ELSE rows[1].age + TotalAge(Tail(rows))

\* Math.round(a / b) of non-negative a and positive b
MathRound(a, b) == (2 * a + b) \div (2 * b)

\* What fetchStats computes from a body that has data
StatsOf(body) ==
    [total |-> IF body.total # 0 THEN body.total ELSE Len(body.data),
     newThisMonth |-> Cardinality({i \in 1..Len(body.data) : body.data[i].registeredThisMonth}),
     activeUsers |-> Len(body.data),
     averageAge |-> IF Len(body.data) > 0
                    THEN MathRound(TotalAge(body.data), Len(body.data))
                    ELSE 0]

\* fetchStats after its awaits, the response of any status parsed as JSON:
\* if (data.data) setCustomerStats(...)
fetchStatsResolved(status, body) ==
    /\ app = "CrmCustomersTable"
    /\ statsInflight > 0
    /\ status \in {"ok", "http500"}
    /\ statsInflight' = statsInflight - 1
    /\ customerStats' = IF body.hasData THEN StatsOf(body) ELSE customerStats
    /\ last' = Step("fetchStats", "", status = "ok", <<>>)
    /\ UNCHANGED <<listVars, app, pageVars, modalVars, inflight, latestReq, burst>>

\* fetchStats, its catch block (fetch rejected, or a body that is no JSON):
\* console.error only
fetchStatsRejected ==
    /\ app = "CrmCustomersTable"
    /\ statsInflight > 0
    /\ statsInflight' = statsInflight - 1
    /\ last' = Step("fetchStatsRejected", "", FALSE, <<>>)
    /\ UNCHANGED <<listVars, app, customerStats, pageVars, modalVars, inflight,
                   latestReq, burst>>

\* ------------------------------------------------------------------ CrmEditUserModal: the page's handlers and the editor's

\* page: handleEditUser(user) from a row's edit button (rows are rendered when
\* not loading); the modal's effect sets the draft to { ...user }, a copy of
\* the top level whose name and location are the row's own objects, and clears
\* the error
handleEditUser(uuid) ==
    /\ app = "CrmCustomersTable"
    /\ ~modalOpen
    /\ ~loading
    /\ users # <<>>
    /\ selectedCustomer' = <<heap.rows[uuid]>>
    /\ modalOpen' = TRUE
    /\ editedUser' = selectedCustomer'
    /\ heap' = [heap EXCEPT !.shared = TRUE]
    /\ modalError' = Null
    /\ last' = Step("handleEditUser", uuid, TRUE, <<>>)
    /\ UNCHANGED <<listVars, app, statsVars, refreshKey, formData, errors, modalLoading,
                   inflight, latestReq, burst>>

\* handleFieldChange(field, value): updatedUser = { ...editedUser }, then the
\* assignment at the end of the path.  For a path of one part the assignment
\* is to the copy; for a longer path it is to the nested object, which the
\* draft, the user prop and (until the list is loaded anew) the list's row share.
handleFieldChange(field, value) ==
    /\ app = "CrmCustomersTable"
    /\ modalOpen
    /\ editedUser # <<>>
    /\ value # GetField(editedUser[1], field)
    /\ editedUser' = <<SetField(editedUser[1], field, value)>>
    /\ selectedCustomer' = IF IsNested(field) /\ selectedCustomer # <<>>
                           THEN <<SetField(selectedCustomer[1], field, value)>>
                           ELSE selectedCustomer
    /\ heap' = IF IsNested(field) /\ heap.shared
               THEN [heap EXCEPT !.rows[editedUser[1].login.uuid] = SetField(@, field, value)]
               ELSE heap
    /\ last' = Step("handleFieldChange", "", TRUE, <<>>)
    /\ UNCHANGED <<listVars, app, statsVars, refreshKey, modalOpen, formData, errors, modalLoading,
                   modalError, inflight, latestReq, burst>>

\* handleSave to its await: setLoading(true), setError(null), the PUT
handleSave ==
    /\ app = "CrmCustomersTable"
    /\ modalOpen
    /\ refreshKey < MaxRefresh
    /\ ~modalLoading
    /\ editedUser # <<>>
    /\ CanSend
    /\ modalLoading' = TRUE
    /\ modalError' = Null
    /\ inflight' = Send(inflight, Pending(SaveRequest(editedUser[1]), NoClosure, TRUE))
    /\ last' = Step("handleSave", editedUser[1].login.uuid, TRUE,
                    <<SaveRequest(editedUser[1])>>)
    /\ UNCHANGED <<listVars, app, statsVars, pageVars, formData, errors, editedUser, latestReq, burst>>

\* handleSave after the await, response.ok: onSave(editedUser) (the page's
\* handleSaveUser: setRefreshTrigger(prev + 1), handleCloseModal()), onClose(),
\* setLoading(false)
saveOk(e) ==
    /\ app = "CrmCustomersTable"
    /\ BagIn(e, inflight)
    /\ e.req.kind = "PUT"
    /\ refreshKey' = refreshKey + 1
    /\ CrmRemount(Remove(inflight, e))
    /\ modalOpen' = FALSE
    /\ selectedCustomer' = <<>>
    /\ modalLoading' = FALSE
    /\ statsInflight' = statsInflight + 1
    /\ last' = Step("saveOk", e.req.id, TRUE,
                    <<ListRequest("", 0, InitialPageSize(app), "")>>)
    /\ UNCHANGED <<debouncedSearchTerm, timer, app, customerStats, formData, errors,
                   editedUser, modalError, burst>>

\* handleSave after the await, !response.ok or a rejected fetch
saveFail(e, outcome) ==
    /\ app = "CrmCustomersTable"
    /\ BagIn(e, inflight)
    /\ e.req.kind = "PUT"
    /\ outcome # "ok"
    /\ modalError' = CrmSaveErrorMessage(outcome)
    /\ modalLoading' = FALSE
    /\ inflight' = Remove(inflight, e)
    /\ last' = Step("saveFail", e.req.id, FALSE, <<>>)
    /\ UNCHANGED <<listVars, app, statsVars, pageVars, formData, errors, editedUser, latestReq, burst>>

\* handleCancel (Cancel, the backdrop, Escape): setError(null), onClose()
handleCancel ==
    /\ app = "CrmCustomersTable"
    /\ modalOpen
    /\ modalError' = Null
    /\ modalOpen' = FALSE
    /\ selectedCustomer' = <<>>
    /\ heap' = [heap EXCEPT !.shared = FALSE]
    /\ last' = Step("handleCancel", "", TRUE, <<>>)
    /\ UNCHANGED <<listVars, app, statsVars, refreshKey, formData, errors, editedUser,
                   modalLoading, inflight, latestReq, burst>>

\* ------------------------------------------------------------------ specification

\* The state after the first render and its mount effects: the list fetch of
\* the initial query is in flight, and useDebounce's first timeout is pending.
Init ==
    /\ app \in Apps
    /\ users = <<>>
    /\ total = 0
    /\ loading = TRUE
    /\ error = Null
    /\ searchTerm = ""
    /\ page = 0
    /\ pageSize = InitialPageSize(app)
    /\ debouncedSearchTerm = ""
    /\ timer = [pending |-> app = "CustomersPage", value |-> ""]
    /\ refreshKey = 0
    /\ modalOpen = FALSE
    /\ selectedCustomer = <<>>
    /\ heap = [rows |-> FreshRows, shared |-> FALSE]
    /\ formData = LoadedFormData(<<>>)
    /\ errors = NoErrors
    /\ editedUser = <<>>
    /\ modalLoading = FALSE
    /\ modalError = Null
    /\ customerStats = NoStats
    /\ statsInflight = IF app = "CrmCustomersTable" THEN 1 ELSE 0
    /\ inflight = SetToBag({Pending(ListRequest("", 0, InitialPageSize(app),
                                                 IF app = "CustomersDataTable" THEN "name.first" ELSE ""),
                                     NoClosure, TRUE)})
    /\ latestReq = [req |-> ListRequest("", 0, InitialPageSize(app),
                                        IF app = "CustomersDataTable" THEN "name.first" ELSE ""),
                    outcome |-> "pending"]
    /\ burst = NoBurst
    /\ last = [op |-> "mount", id |-> "", ok |-> TRUE, search |-> "", page |-> 0,
               pageSize |-> InitialPageSize(app),
               sent |-> <<ListRequest("", 0, InitialPageSize(app),
                                      IF app = "CustomersDataTable" THEN "name.first" ELSE "")>>]

Next ==
    \/ \E v \in SearchTexts : PageHandleSearchChange(v)
    \/ \E p \in 0..MaxPage, n \in PageSizes : handlePaginationModelChange(p, n)
    \/ debounceTimeout
    \/ \E e \in BagToSet(inflight) : PageFetchUsersOk(e)
    \/ \E e \in BagToSet(inflight), o \in Outcomes : PageFetchUsersFail(e, o)
    \/ \E v \in SearchTexts : handleSearch(v)
    \/ \E p \in 0..MaxPage : TableSetPage(p)
    \/ \E n \in PageSizes : TableSetPageSize(n)
    \/ handleRefresh
    \/ \E id \in Uuids, c \in BOOLEAN : handleDeleteCustomer(id, c)
    \/ \E e \in BagToSet(inflight) : deleteUserOk(e)
    \/ \E e \in BagToSet(inflight), o \in Outcomes : deleteUserFail(e, o)
    \/ \E e \in BagToSet(inflight) : fetchCustomersOk(e)
    \/ \E e \in BagToSet(inflight), o \in Outcomes : fetchCustomersFail(e, o)
    \/ \E v \in SearchTexts : CrmHandleSearchChange(v)
    \/ \E p \in 0..MaxPage : handleChangePage(p)
    \/ \E n \in PageSizes : handleChangeRowsPerPage(n)
    \/ \E e \in BagToSet(inflight) : CrmFetchUsersOk(e)
    \/ \E e \in BagToSet(inflight), o \in Outcomes : CrmFetchUsersFail(e, o)

Spec == Init /\ [][Next]_vars

\* Only changes of the search text, the page and the page size, and the
\* answers to the list requests they cause.
NextQuery ==
    \/ \E v \in SearchTexts : PageHandleSearchChange(v)
    \/ \E p \in 0..MaxPage, n \in PageSizes : handlePaginationModelChange(p, n)
    \/ debounceTimeout
    \/ \E e \in BagToSet(inflight) : PageFetchUsersOk(e)
    \/ \E e \in BagToSet(inflight), o \in Outcomes : PageFetchUsersFail(e, o)
    \/ \E v \in SearchTexts : handleSearch(v)
    \/ \E p \in 0..MaxPage : TableSetPage(p)
    \/ \E n \in PageSizes : TableSetPageSize(n)
    \/ \E e \in BagToSet(inflight) : fetchCustomersOk(e)
    \/ \E e \in BagToSet(inflight), o \in Outcomes : fetchCustomersFail(e, o)
    \/ \E v \in SearchTexts : CrmHandleSearchChange(v)
    \/ \E p \in 0..MaxPage : handleChangePage(p)
    \/ \E n \in PageSizes : handleChangeRowsPerPage(n)
    \/ \E e \in BagToSet(inflight) : CrmFetchUsersOk(e)
    \/ \E e \in BagToSet(inflight), o \in Outcomes : CrmFetchUsersFail(e, o)

SpecQuery == Init /\ [][NextQuery]_vars

\* What the user types into the fields of CustomerModal.
CustomerInputs ==
    {<<"firstName", <<"A", "l">> >>,
     <<"lastName", <<"B", "o">> >>,
     <<"email", <<"a", "@", "b", ".", "c", "o">> >>,
     <<"email", <<"n", "o", "t", "-", "a", "n", "-", "e", "m", "a", "i", "l">> >>,
     <<"username", <<"a", "l">> >>}

\* What the user types into the fields of CrmEditUserModal.
CrmInputs ==
    {<<"name.first", <<>> >>, <<"email", <<"x">> >>, <<"location.city", <<"O", "s", "l", "o">> >>}

InitEdit == Init /\ app \in {"CustomersDataTable", "CrmCustomersTable"}

\* The two pages with an editor: changes of the search text and the page, the
\* editor, and the answers of the Directory Service (list requests answered ok;
\* a save answered either way).
NextEdit ==
    \/ \E v \in SearchTexts : handleSearch(v)
    \/ \E p \in 0..MaxPage : TableSetPage(p)
    \/ \E e \in BagToSet(inflight) : fetchCustomersOk(e)
    \/ \E id \in Uuids : handleEditCustomer(id)
    \/ handleAddCustomer
    \/ \E in \in CustomerInputs : handleInputChange(in[1], in[2])
    \/ handleSubmit
    \/ \E e \in BagToSet(inflight) : submitOk(e)
    \/ \E e \in BagToSet(inflight), o \in Outcomes : submitFail(e, o)
    \/ handleClose
    \/ \E v \in SearchTexts : CrmHandleSearchChange(v)
    \/ \E p \in 0..MaxPage : handleChangePage(p)
    \/ \E e \in BagToSet(inflight) : CrmFetchUsersOk(e)
    \/ \E id \in Uuids : handleEditUser(id)
    \/ \E in \in CrmInputs : handleFieldChange(in[1], in[2])
    \/ handleSave
    \/ \E e \in BagToSet(inflight) : saveOk(e)
    \/ \E e \in BagToSet(inflight), o \in Outcomes : saveFail(e, o)
    \/ handleCancel

SpecEdit == InitEdit /\ [][NextEdit]_vars

\* ------------------------------------------------------------------ the page around CrmCustomersTable and its statistics

InitStats == Init /\ app = "CrmCustomersTable"

\* The list and the editor of the page, the answers to its list and save
\* requests, and the answers to its statistics requests.
NextStats ==
    \/ \E v \in SearchTexts : CrmHandleSearchChange(v)
    \/ \E e \in BagToSet(inflight) : CrmFetchUsersOk(e)
    \/ \E e \in BagToSet(inflight), o \in Outcomes : CrmFetchUsersFail(e, o)
    \/ \E id \in Uuids : handleEditUser(id)
    \/ handleSave
    \/ \E e \in BagToSet(inflight) : saveOk(e)
    \/ \E e \in BagToSet(inflight), o \in Outcomes : saveFail(e, o)
    \/ handleCancel
    \/ \E status \in {"ok", "http500"}, body \in StatsBodies : fetchStatsResolved(status, body)
    \/ fetchStatsRejected

SpecStats == InitStats /\ [][NextStats]_vars

\* ------------------------------------------------------------------ CustomersDataTable and CustomerModal, every call answered either way

InitFail == Init /\ app = "CustomersDataTable"

\* The list, the delete and the editor of a row, with failures of every call.
NextFail ==
    \/ \E v \in SearchTexts : handleSearch(v)
    \/ \E e \in BagToSet(inflight) : fetchCustomersOk(e)
    \/ \E e \in BagToSet(inflight), o \in Outcomes : fetchCustomersFail(e, o)
    \/ handleRefresh
    \/ \E id \in Uuids, c \in BOOLEAN : handleDeleteCustomer(id, c)
    \/ \E e \in BagToSet(inflight) : deleteUserOk(e)
    \/ \E e \in BagToSet(inflight), o \in Outcomes : deleteUserFail(e, o)
    \/ \E id \in Uuids : handleEditCustomer(id)
    \/ handleSubmit
    \/ \E e \in BagToSet(inflight) : submitOk(e)
    \/ \E e \in BagToSet(inflight), o \in Outcomes : submitFail(e, o)
    \/ handleClose

SpecFail == InitFail /\ [][NextFail]_vars

\* ------------------------------------------------------------------ Customers page with useDebounce, timers and answers arriving

InitLive == Init /\ app = "CustomersPage"

NextLive ==
    \/ \E v \in SearchTexts : PageHandleSearchChange(v)
    \/ \E p \in 0..MaxPage, n \in PageSizes : handlePaginationModelChange(p, n)
    \/ debounceTimeout
    \/ \E e \in BagToSet(inflight) : PageFetchUsersOk(e)
    \/ \E e \in BagToSet(inflight), o \in Outcomes : PageFetchUsersFail(e, o)

\* Some outstanding request is answered.
PageAnswer ==
    \/ \E e \in BagToSet(inflight) : PageFetchUsersOk(e)
    \/ \E e \in BagToSet(inflight), o \in Outcomes : PageFetchUsersFail(e, o)

\* The timeout set by useDebounce fires once its delay has passed (nothing in
\* the page holds it back: it is strongly fair, so that the limit on the
\* outstanding requests cannot postpone it for ever), and every request that
\* was issued is answered.
SpecLive ==
    InitLive /\ [][NextLive]_vars /\ SF_vars(debounceTimeout) /\ WF_vars(PageAnswer)

\* ------------------------------------------------------------------ the form, draft by draft

\* What the user may have typed into the fields the validation reads.
\* First Name
FirstNames ==
    {<<>>,
     <<" ">>,
     <<"A", "l">>}

\* Last Name
LastNames ==
    {<<>>,
     <<"B", "o">>}

\* Email
Emails ==
    {<<>>,
     <<" ">>,
     <<"n", "o", "t", "-", "a", "n", "-", "e", "m", "a", "i", "l">>,
     <<"a", "@", "b", ".", "c", "o">>,
     <<"a", "@", "b">>,
     <<"a", "@", ".", "c", "o">>,
     <<"a", "@", "b", ".">>,
     <<" ", "a", "@", "b", ".", "c", "o">>,
     <<"a", "@", "@", "b", ".", "c", "o">>}

\* Username
Usernames ==
    {<<>>,
     <<" ">>,
     <<"a", "l">>}

\* Phone
Phones ==
    {<<>>,
     <<"a", "b", "c">>,
     <<"(", "5", "5", "5", ")", " ", "1", "2", "3", "-", "4", "5", "6", "7">>,
     <<"1", "2", "3", "4", "5", "6", "7", "8", "9">>,
     <<"1", "2", "3", "4", "5", "6", "7", "8", "9", "0", "1", "2", "3", "4", "5">>,
     <<"1", "2", "3", "4", "5", "6", "7", "8", "9", "0", "1", "2", "3", "4", "5", "6">>}

\* Street Number
StreetNumbers ==
    {<<>>,
     <<"1", "2">>,
     <<"1", "a">>,
     <<"0", "7">>,
     <<"-", "1">>,
     <<" ", "7">>}

FormDrafts ==
    {[NewCustomerFormData EXCEPT !.firstName = fn, !.lastName = ln, !.email = em,
                                 !.username = un, !.phone = ph, !.streetNumber = sn] :
        fn \in FirstNames, ln \in LastNames, em \in Emails, un \in Usernames,
        ph \in Phones, sn \in StreetNumbers}

\* CustomerModal open on the CustomersDataTable page after the list of the
\* mount has been answered, for a new customer or for the row u1, with a draft
\* the user has typed.
InitForm ==
    /\ app = "CustomersDataTable"
    /\ users = ResponseData(ListRequest("", 0, InitialPageSize(app), "name.first"))
    /\ total = ResponseTotal(ListRequest("", 0, InitialPageSize(app), "name.first"))
    /\ loading = FALSE
    /\ error = Null
    /\ searchTerm = ""
    /\ page = 0
    /\ pageSize = InitialPageSize(app)
    /\ debouncedSearchTerm = ""
    /\ timer = [pending |-> FALSE, value |-> ""]
    /\ refreshKey = 0
    /\ modalOpen = TRUE
    /\ selectedCustomer \in {<<>>, <<Customer("u1")>>}
    /\ heap = [rows |-> FreshRows, shared |-> FALSE]
    /\ formData \in FormDrafts
    /\ errors = NoErrors
    /\ editedUser = <<>>
    /\ modalLoading = FALSE
    /\ modalError = Null
    /\ customerStats = NoStats
    /\ statsInflight = 0
    /\ inflight = EmptyBag
    /\ latestReq = [req |-> ListRequest("", 0, InitialPageSize(app), "name.first"),
                    outcome |-> "ok"]
    /\ burst = NoBurst
    /\ last = [op |-> "handleInputChange", id |-> "", ok |-> TRUE, search |-> "",
               page |-> 0, pageSize |-> InitialPageSize(app), sent |-> <<>>]

\* The submit of the draft and what follows it.
NextForm ==
    \/ handleSubmit
    \/ \E e \in BagToSet(inflight) : submitOk(e)
    \/ \E e \in BagToSet(inflight), o \in Outcomes : submitFail(e, o)
    \/ handleClose

SpecForm == InitForm /\ [][NextForm]_vars

\* ------------------------------------------------------------------ properties

\* The message a failed list fetch leaves in error, per component.
ListErrorMessage(outcome) ==
    CASE app = "CustomersPage" -> PageErrorMessage(outcome)
      [] app = "CustomersDataTable" -> ServiceErrorMessage(outcome)
      [] OTHER -> CrmErrorMessage(outcome)

SearchChangeOps == {"handleSearchChange", "handleSearch"}

PagingOps == {"handlePaginationModelChange", "setPage", "setPageSize",
              "handleChangePage", "handleChangeRowsPerPage"}

ListFailOps == {"fetchUsersFail", "fetchCustomersFail"}

\* C1: once every request has been answered, the rows, the total and the
\* error shown are those of the list request that was issued last: its rows and
\* total and no error if it succeeded, its failure message if it failed.
C1_LastIssuedRequestWins ==
    inflight = EmptyBag =>
        /\ latestReq.outcome = "ok" =>
              /\ users = ResponseData(latestReq.req)
              /\ total = ResponseTotal(latestReq.req)
              /\ error = Null
        /\ latestReq.outcome # "ok" => error = ListErrorMessage(latestReq.outcome)

\* C2: in the Customers page with useDebounce, when the debounce timeout ends a
\* run of keystrokes (nothing but keystrokes since the run began) that left a
\* text other than the debounced one, exactly one list request was issued
\* because of the run, and it is the one issued now, carrying the text typed
\* last.
C2_OneRequestPerKeystrokeRun ==
    [][(/\ app = "CustomersPage"
        /\ last'.op = "debounceTimeout"
        /\ last'.ok
        /\ burst'.pure
        /\ debouncedSearchTerm # searchTerm) =>
          /\ burst'.sent = 1
          /\ Len(last'.sent) = 1
          /\ last'.sent[1].search = searchTerm
      ]_vars

\* C3: in CustomersDataTable and CrmCustomersTable a change of the search text
\* sends no list request in the step of the keystroke: a request goes out only
\* after the debounce window has passed without a further change.
C3_SearchChangeIsDebounced ==
    (app \in {"CustomersDataTable", "CrmCustomersTable"} /\ last.op \in SearchChangeOps) =>
        last.sent = <<>>

\* C4: in every list component the state right after a change of the search
\* text has page index 0, whatever the page was before, and the page size it
\* had before.
C4_SearchChangeResetsPage ==
    last.op \in SearchChangeOps =>
        /\ searchTerm # last.search
        /\ page = 0
        /\ pageSize = last.pageSize

C4_Witness ==
    /\ last.op \in SearchChangeOps
    /\ last.page = 1
    /\ page = 0
    /\ pageSize # InitialPageSize(app)

\* C5: a change of the page index or of the page size to a new value sends, in
\* the same step (no debounce), exactly one list request, and it carries the
\* new page index (1-based on the wire) and the new page size.
C5_PagingChangeFetchesAtOnce ==
    (last.op \in PagingOps /\ <<page, pageSize>> # <<last.page, last.pageSize>>) =>
        /\ Len(last.sent) = 1
        /\ last.sent[1].kind = "GET"
        /\ last.sent[1].page = page + 1
        /\ last.sent[1].perPage = pageSize
        /\ \E e \in BagToSet(inflight) : e.req = last.sent[1] /\ e.latest

C5_Witness ==
    /\ last.op \in PagingOps
    /\ last.page = 0
    /\ page = 1
    /\ pageSize # last.pageSize
    /\ Len(last.sent) = 1

\* C7: handleDeleteCustomer with the confirmation declined sends nothing and
\* changes no state; with the confirmation accepted it sends exactly one DELETE
\* for the given id and no list request; the continuation of a DELETE that
\* succeeded sends exactly one list request.
C7_DeleteConfirmThenRefetch ==
    [][/\ (last'.op = "handleDeleteCustomer" /\ ~last'.ok) =>
              /\ last'.sent = <<>>
              /\ UNCHANGED <<listVars, inflight, pageVars, modalVars, latestReq>>
       /\ (last'.op = "handleDeleteCustomer" /\ last'.ok) =>
              /\ last'.sent = <<DeleteRequest(last'.id)>>
              /\ inflight' (-) inflight = SetToBag({Pending(DeleteRequest(last'.id),
                                                           [search |-> searchTerm, page |-> page,
                                                            pageSize |-> pageSize], TRUE)})
              /\ UNCHANGED listVars
       /\ last'.op = "deleteUserOk" =>
              /\ Len(last'.sent) = 1
              /\ last'.sent[1].kind = "GET"
              /\ BagCardinality(inflight') = BagCardinality(inflight)
              /\ \E e \in BagToSet(inflight) :
                    /\ e.req = DeleteRequest(last'.id)
                    /\ CopiesIn(e, inflight') = CopiesIn(e, inflight) - 1
      ]_vars

C7_Witness ==
    /\ last.op = "deleteUserOk"
    /\ last.id = "u2"
    /\ Len(last.sent) = 1
    /\ \E e \in BagToSet(inflight) : e.req = last.sent[1]

\* C8: when the DELETE of handleDeleteCustomer fails, the failure message is
\* stored in error (of the table that issued it, still mounted), no list
\* request is sent, and the rows and the total stay what they were.
C8_DeleteFailureKeepsPage ==
    [][last'.op = "deleteUserFail" =>
          /\ error' \in {ServiceErrorMessage(o) : o \in Outcomes \ {"ok"}}
          /\ last'.sent = <<>>
          /\ \A e \in BagToSet(inflight') : CopiesIn(e, inflight') <= CopiesIn(e, inflight)
          /\ users' = users
          /\ total' = total
      ]_vars

C8_Witness ==
    /\ last.op = "deleteUserFail"
    /\ users # <<>>
    /\ error = ServiceErrorMessage("http500")

\* C9: in every list component a list fetch that fails leaves the rows and the
\* total as they were; only loading and error change.
C9_ListFailureKeepsRows ==
    [][last'.op \in ListFailOps =>
          /\ users' = users
          /\ total' = total
          /\ UNCHANGED <<searchTerm, page, pageSize>>
      ]_vars

SaveOkOps == {"submitOk", "saveOk"}

\* C6: after a successful create or update the list's search text, page index
\* and page size are what they were before the save, and the one list request
\* the refresh sends carries exactly those values.
C6_SaveKeepsListQuery ==
    last.op \in SaveOkOps =>
        /\ searchTerm = last.search
        /\ page = last.page
        /\ pageSize = last.pageSize
        /\ Len(last.sent) = 1
        /\ last.sent[1].kind = "GET"
        /\ last.sent[1].search = last.search
        /\ last.sent[1].page = last.page + 1
        /\ last.sent[1].perPage = last.pageSize

\* C10: a CustomerModal.handleSubmit whose validation finds a field error sends
\* no request, leaves loading false, calls neither onSave (the refresh key
\* stays) nor onClose (the editor stays open on the same customer and draft),
\* and records the field errors in the errors state.
C10_InvalidSubmitSendsNothing ==
    [][(/\ last'.op = "handleSubmit"
        /\ ~IsValid(validateForm(formData, IsEditing))) =>
          /\ last'.sent = <<>>
          /\ inflight' = inflight
          /\ ~modalLoading /\ ~modalLoading'
          /\ UNCHANGED <<refreshKey, modalOpen, selectedCustomer, formData, listVars>>
          /\ errors' = validateForm(formData, IsEditing)
          /\ \E f \in ErrorFields : errors'[f] # ""
      ]_vars

C10_Witness ==
    /\ last.op = "handleSubmit"
    /\ ~last.ok
    /\ modalOpen
    /\ selectedCustomer # <<>>
    /\ errors.email # ""
    /\ ~modalLoading
    /\ inflight = EmptyBag

\* C11: CrmEditUserModal.handleSave never sends a draft that breaks the
\* validation rules (first and last name non-empty after trimming, email
\* non-empty and well-formed, phone of 10 to 15 digits when given): whenever
\* handleSave has sent its PUT, the draft it holds is valid.
C11_InvalidDraftNeverSaved ==
    (last.op = "handleSave" /\ last.sent # <<>>) =>
        /\ editedUser # <<>>
        /\ IsValid(validateForm(CustomerFormData(editedUser[1]), TRUE))

CrmEditorOps == {"handleFieldChange", "handleCancel", "saveFail"}

\* C12: an edit in CrmEditUserModal is not applied to the record the list
\* holds before the server confirms it: no field edit, no Cancel and no failed
\* save changes any row object of the list, so after any run of edits followed
\* by Cancel or a failed save the row equals what it was when the editor opened.
C12_EditLeavesListRecord ==
    [][(app = "CrmCustomersTable" /\ last'.op \in CrmEditorOps) =>
          heap'.rows = heap.rows
      ]_vars

\* C13: a CustomerModal.handleSubmit with a valid draft sends exactly one call:
\* with a customer loaded, one PUT keyed by the uuid of that customer, whatever
\* was edited, and no POST; with none loaded, one POST and no PUT.
C13_ValidSubmitSendsOneCall ==
    [][(last'.op = "handleSubmit" /\ last'.ok) =>
          /\ Len(last'.sent) = 1
          /\ inflight' (-) inflight = SetToBag({Pending(last'.sent[1], NoClosure, TRUE)})
          /\ BagCardinality(inflight') = BagCardinality(inflight) + 1
          /\ IF selectedCustomer # <<>>
             THEN /\ last'.sent[1].kind = "PUT"
                  /\ last'.sent[1].id = selectedCustomer[1].login.uuid
                  /\ last'.sent[1].body = UpdateData(formData)
             ELSE /\ last'.sent[1].kind = "POST"
                  /\ last'.sent[1].body = CreateData(formData)
      ]_vars

C13_Witness ==
    /\ last.op = "handleSubmit"
    /\ last.ok
    /\ selectedCustomer # <<>>
    /\ selectedCustomer[1].login.uuid = "u2"
    /\ formData.email # selectedCustomer[1].email
    /\ \E e \in BagToSet(inflight) : e.req.kind = "PUT" /\ e.req.id = "u2"

\* C14: a successful submit in either editor notifies the caller exactly once
\* (one increment of the refresh key, one list request for the refresh) and
\* clears the draft: CustomerModal is back at the create-mode defaults with no
\* field errors, CrmEditUserModal holds no draft any more.
C14_SaveNotifiesOnceAndClearsDraft ==
    [][last'.op \in SaveOkOps =>
          /\ refreshKey' = refreshKey + 1
          /\ Len(last'.sent) = 1
          /\ last'.sent[1].kind = "GET"
          /\ ~modalOpen'
          /\ last'.op = "submitOk" => (formData' = NewCustomerFormData /\ errors' = NoErrors)
          /\ last'.op = "saveOk" => editedUser' = <<>>
      ]_vars

SaveFailOps == {"submitFail", "saveFail"}

SaveFailMessages ==
    {ServiceErrorMessage(o) : o \in Outcomes \ {"ok"}}
        \cup {CrmSaveErrorMessage(o) : o \in Outcomes \ {"ok"}}

\* C15: when the create or update call of a submit fails, the draft is kept
\* as it is, the failure message is stored in the editor's error, loading is
\* false again, neither onSave nor onClose is called (refresh key, open flag,
\* selected record and list unchanged), and the step sends no request.
C15_SaveFailureKeepsDraft ==
    [][last'.op \in SaveFailOps =>
          /\ formData' = formData
          /\ errors' = errors
          /\ editedUser' = editedUser
          /\ modalError' \in SaveFailMessages
          /\ modalLoading /\ ~modalLoading'
          /\ UNCHANGED <<refreshKey, modalOpen, selectedCustomer, heap>>
          /\ UNCHANGED listVars
          /\ last'.sent = <<>>
          /\ BagCardinality(inflight') = BagCardinality(inflight) - 1
          /\ \A e \in BagToSet(inflight') : CopiesIn(e, inflight') <= CopiesIn(e, inflight)
      ]_vars

C15_Witness ==
    /\ last.op = "submitFail"
    /\ modalOpen
    /\ selectedCustomer # <<>>
    /\ formData # LoadedFormData(selectedCustomer)
    /\ modalError = ServiceErrorMessage("http500")
    /\ ~modalLoading
    /\ inflight = EmptyBag

\* The fields for which a validation has recorded an error.
FieldsInError == {f \in ErrorFields : errors[f] # ""}

\* C16: validateForm on the create-mode empty draft (every text field empty,
\* title "Mr", gender "male") records errors for exactly firstName, lastName,
\* email and username, and reports the draft invalid (nothing is sent).
C16_EmptyCreateDraftErrors ==
    (last.op = "handleSubmit" /\ selectedCustomer = <<>> /\ formData = NewCustomerFormData) =>
        /\ FieldsInError = {"firstName", "lastName", "email", "username"}
        /\ ~last.ok
        /\ last.sent = <<>>

C16_Witness ==
    /\ last.op = "handleSubmit"
    /\ selectedCustomer = <<>>
    /\ formData = NewCustomerFormData
    /\ errors.username = "Username is required"
    /\ errors.firstName = "First name is required"

\* A run of one or more characters that are neither white space nor "@".
IsRun(s) == s # <<>> /\ \A i \in 1..Len(s) : s[i] # " " /\ s[i] # "@"

\* local@domain.tld: three such runs, joined by one "@" and a "."
LocalAtDomainTld(s) ==
    \E i \in 1..Len(s), j \in 1..Len(s) :
        /\ i < j
        /\ s[i] = "@"
        /\ s[j] = "."
        /\ IsRun(SubSeq(s, 1, i - 1))
        /\ IsRun(SubSeq(s, i + 1, j - 1))
        /\ IsRun(SubSeq(s, j + 1, Len(s)))

\* C17: validateForm records an email error exactly when the email is empty
\* after trimming or is not of the shape local@domain.tld; "not-an-email" gets
\* an error and "a@b.co" gets none.
C17_EmailErrorIffMalformed ==
    last.op = "handleSubmit" =>
        /\ errors.email # "" <=>
              (Trim(formData.email) = <<>> \/ ~LocalAtDomainTld(formData.email))
        /\ formData.email = <<"n", "o", "t", "-", "a", "n", "-", "e", "m", "a", "i", "l">> => errors.email # ""
        /\ formData.email = <<"a", "@", "b", ".", "c", "o">> => errors.email = ""

C17_Witness ==
    /\ last.op = "handleSubmit"
    /\ formData.email = <<"n", "o", "t", "-", "a", "n", "-", "e", "m", "a", "i", "l">>
    /\ errors.email = "Please enter a valid email address"
    /\ FieldsInError = {"email"}

\* The number of digit characters in a string.
DigitCount(s) == Cardinality({i \in 1..Len(s) : IsDigit(s[i])})

\* C18: validateForm records a phone error exactly when the phone is non-empty
\* and the number of its digit characters is outside 10..15; an empty phone and
\* "(555) 123-4567" get no error, "abc" gets one.
C18_PhoneErrorIffDigitCount ==
    last.op = "handleSubmit" =>
        /\ errors.phone # "" <=>
              (formData.phone # <<>> /\ DigitCount(formData.phone) \notin 10..15)
        /\ formData.phone = <<>> => errors.phone = ""
        /\ formData.phone = <<"(", "5", "5", "5", ")", " ", "1", "2", "3", "-", "4", "5", "6", "7">> => errors.phone = ""
        /\ formData.phone = <<"a", "b", "c">> => errors.phone # ""

C18_Witness ==
    /\ last.op = "handleSubmit"
    /\ formData.phone = <<"1", "2", "3", "4", "5", "6", "7", "8", "9", "0", "1", "2", "3", "4", "5", "6">>
    /\ errors.phone = "Please enter a valid phone number"
    /\ FieldsInError = {"phone"}

\* C19: validateForm records a username error exactly when no customer is
\* loaded (create mode) and the username is empty after trimming; with a
\* customer loaded an empty username gives no error and does not block the
\* submit of a draft that is valid in its other fields.
C19_UsernameRequiredOnlyToCreate ==
    last.op = "handleSubmit" =>
        /\ errors.username # "" <=>
              (selectedCustomer = <<>> /\ Trim(formData.username) = <<>>)
        /\ (selectedCustomer # <<>> /\ FieldsInError \subseteq {"username"}) =>
              (last.ok /\ Len(last.sent) = 1 /\ last.sent[1].kind = "PUT")

C19_Witness ==
    /\ last.op = "handleSubmit"
    /\ selectedCustomer # <<>>
    /\ formData.username = <<>>
    /\ last.ok
    /\ modalLoading

\* C20: validateForm records a streetNumber error exactly when the street
\* number is non-empty and has a character that is no decimal digit; so every
\* request CustomerModal sends for a draft with a street number carries that
\* street number as a non-negative integer.
C20_StreetNumberDigitsOnly ==
    last.op = "handleSubmit" =>
        /\ errors.streetNumber # "" <=>
              (/\ formData.streetNumber # <<>>
               /\ \E i \in 1..Len(formData.streetNumber) : ~IsDigit(formData.streetNumber[i]))
        /\ (last.ok /\ formData.streetNumber # <<>>) =>
              /\ Len(last.sent) = 1
              /\ last.sent[1].body.location.street.number.kind = "number"
              /\ last.sent[1].body.location.street.number.value \in Nat

C20_Witness ==
    /\ last.op = "handleSubmit"
    /\ last.ok
    /\ formData.streetNumber = <<"1", "2">>
    /\ last.sent[1].body.location.street.number = Number(12)

\* C21: CustomerModal.handleInputChange(field) sets that one draft field and
\* clears the recorded error of exactly that field: every other draft field
\* and every other field's error is unchanged, and no request is issued.
C21_InputChangeTouchesOneField ==
    [][last'.op = "handleInputChange" =>
          /\ \E field \in FormFields :
                /\ formData'[field] # formData[field]
                /\ \A other \in FormFields \ {field} : formData'[other] = formData[other]
                /\ field \in ErrorFields => errors'[field] = ""
                /\ \A other \in ErrorFields \ {field} : errors'[other] = errors[other]
          /\ last'.sent = <<>>
          /\ inflight' = inflight
          /\ latestReq' = latestReq]_vars

C21_Witness ==
    /\ last.op = "handleInputChange"
    /\ formData.email # <<>>
    /\ errors.email = ""
    /\ errors.firstName # ""
    /\ errors.lastName # ""

\* C22: whenever CustomerModal is opened, the draft equals the given
\* customer's fields (edit mode) or the create-mode defaults (no customer),
\* and both the field errors and the submit error are empty: nothing of an
\* earlier editing session survives into the newly opened editor.
C22_OpenedEditorIsFresh ==
    last.op \in {"handleEditCustomer", "handleAddCustomer"} =>
        /\ modalOpen
        /\ formData = IF selectedCustomer = <<>>
                      THEN NewCustomerFormData
                      ELSE CustomerFormData(selectedCustomer[1])
        /\ \A field \in ErrorFields : errors[field] = ""
        /\ modalError = Null

C22_Witness ==
    /\ last.op = "handleEditCustomer"
    /\ refreshKey = 1
    /\ selectedCustomer = <<Customer("u1")>>
    /\ formData = CustomerFormData(Customer("u1"))

C24_Non2xxIsNeverApplied ==
    [][/\ last'.op \in ListFailOps =>
             /\ users' \in {users, <<>>}
             /\ total' \in {total, 0}
             /\ error' \in {error} \cup {ListErrorMessage(o) : o \in Outcomes \ {"ok"}}
       /\ last'.op \in SaveFailOps =>
             /\ users' = users
             /\ total' = total
             /\ modalError' \in SaveFailMessages
       /\ (last'.op = "fetchStats" /\ ~last'.ok) =>
             customerStats' = customerStats]_vars

\* C25: every failure of a list fetch, delete or submit is caught inside the
\* component that issued it: after the failed call settles, that component's
\* error state holds a non-empty message and its loading flag is false.
C25_FailureSetsErrorAndClearsLoading ==
    [][/\ last'.op \in ListFailOps \cup {"deleteUserFail"} =>
             /\ error' \notin {Null, ""}
             /\ ~loading'
       /\ last'.op \in SaveFailOps =>
             /\ modalError' \notin {Null, ""}
             /\ ~modalLoading']_vars

\* The request a step answered was awaited by a mounted instance.
AnsweredLive == \E e \in BagToSet(inflight (-) inflight') : e.live

\* C25, amended: every failure of a list fetch, delete or submit is caught in
\* the component that issued it and stored as its non-empty error message. A
\* failed list fetch leaves the list's loading flag false, a failed submit the
\* editor's; a failed delete leaves the list's loading flag as it was, true
\* when a list request is in flight.
C25_FailureSetsErrorAndOwnLoading ==
    [][/\ (last'.op \in ListFailOps /\ AnsweredLive) =>
             /\ error' \in {ListErrorMessage(o) : o \in Outcomes \ {"ok"}}
             /\ ~loading'
       /\ (last'.op = "deleteUserFail" /\ AnsweredLive) =>
             /\ error' \in {ListErrorMessage(o) : o \in Outcomes \ {"ok"}}
             /\ loading' = loading
       /\ last'.op \in SaveFailOps =>
             /\ modalError' \in SaveFailMessages
             /\ ~modalLoading']_vars

C25_Witness ==
    /\ last.op = "deleteUserFail"
    /\ error = ServiceErrorMessage("http500")
    /\ loading
    /\ \E e \in BagToSet(inflight) : e.req.kind = "GET" /\ e.live

\* C26: the list refetch issued after a successful delete uses the ListQuery
\* that is current when the delete completes: if the page index, page size or
\* search text was changed while the DELETE was in flight, the refetch carries
\* the changed values.
C26_DeleteRefetchUsesCurrentQuery ==
    last.op = "deleteUserOk" =>
        last.sent = <<ListRequest(searchTerm, page, pageSize, "name.first")>>

\* C27: in every list component the loading flag is true in every state in
\* which at least one list request of the mounted component is in flight: the
\* completion of one request never sets loading to false while another is
\* still outstanding.
C27_LoadingWhileRequestInFlight ==
    (\E e \in BagToSet(inflight) : e.req.kind = "GET" /\ e.live) => loading

\* The create/update requests among the outstanding ones.
SubmitsInFlight(queue) ==
    BagCardinality([e \in {x \in BagToSet(queue) : x.req.kind \in {"PUT", "POST"}}
                      |-> CopiesIn(e, queue)])

\* C28: while a submit is in flight an editor cannot be closed and cannot
\* start a second submit: a close request leaves the editor open, and at most
\* one create/update request per editor is outstanding.
C28_SubmitLocksEditor ==
    [][/\ (modalLoading /\ last'.op \in {"handleClose", "handleCancel"}) => modalOpen'
       /\ SubmitsInFlight(inflight') <= 1]_vars

\* The page has caught up with what was typed.
Settled ==
    /\ debouncedSearchTerm = searchTerm
    /\ latestReq.req = ListRequest(searchTerm, page, pageSize, "")
    /\ ~loading

Typing == last'.op = "handleSearchChange"

UserStep == last'.op \in {"handleSearchChange", "handlePaginationModelChange"}

\* C29: in the Customers page that uses useDebounce, if the user stops typing
\* and every issued request is answered, then eventually the debounced search
\* term equals the typed one, a request carrying that term and the current
\* page has been issued, and loading is false; and if the user also stops
\* paging, it stays so.
C29_TypingSettles ==
    /\ <>[][~Typing]_vars => <>Settled
    /\ <>[][~UserStep]_vars => <>[]Settled

C29_Witness ==
    /\ app = "CustomersPage"
    /\ searchTerm = "a"
    /\ Settled
    /\ inflight = EmptyBag
    /\ last.op = "fetchUsersOk"

====
